---------------------------- MODULE Spec2Model ----------------------------
(***************************************************************************)
(* Tile-based inference and georeferencing pipeline of                     *)
(* lettuce_detecto.ipynb: crop_image_into_tiles, get_predictions_for_tiles,*)
(* adjust_boxes, display_original_image_with_boxes,                        *)
(* create_georeferenced_shapefile and transform_polygon, driven by the     *)
(* notebook cells in their order.                                          *)
(*                                                                         *)
(* Scores and thresholds are in hundredths (0.15 is 15).  Pixel and        *)
(* geographic coordinates are integers.                                    *)
(***************************************************************************)
EXTENDS Integers, Sequences, FiniteSets, TLC

VARIABLES
    pc,                     \* position of the notebook run
    error,                  \* the exception that ended the run, or "none"
    img_width, img_height,  \* image.size of the raster
    tile_size,              \* tile_size argument of crop_image_into_tiles
    x, y, tile_num,         \* loop variables of crop_image_into_tiles
    tiles_with_coordinates, \* list of (tile_path, (x, y))
    tile_files,             \* tile_files[n+1]: crop box saved as tile_<n>.jpg
    predict_threshold,      \* threshold argument of get_predictions_for_tiles
    predicted,              \* what model.predict returned, call by call
    all_predictions,        \* list of (labels, boxes, scores, tile_x, tile_y)
    display_threshold,      \* threshold argument of display_original_image_with_boxes
    drawn,                  \* rectangles added to the plot
    threshold,              \* threshold argument of create_georeferenced_shapefile
    crs, transform,         \* src.crs and src.transform of the raster
    polygons,               \* list of {'geometry', 'label', 'score'}
    gdf_pixel,              \* the GeoDataFrame
    out_file,               \* what is on disk at output_shapefile
    box_coords, tile_x, tile_y, \* inputs of the coordinate remapping taken alone
    previous                \* the display and export cells run again: how
                            \* often, and the threshold and polygons of the
                            \* export before

cropVars == <<x, y, tile_num, tiles_with_coordinates, tile_files>>
rasterVars == <<img_width, img_height, tile_size>>
predictVars == <<predict_threshold, predicted, all_predictions>>
displayVars == <<display_threshold, drawn>>
exportVars == <<threshold, crs, transform, polygons, gdf_pixel, out_file>>
remapVars == <<box_coords, tile_x, tile_y>>

vars == <<pc, error, rasterVars, cropVars, predictVars, displayVars,
          exportVars, remapVars, previous>>

(* ------------------------------ bounds -------------------------------- *)

\* rasters of the tiling specification are 1..MaxDim pixels wide and high
MaxDim == 5
\* tile sizes of the tiling specification are -MaxTile..MaxTile
MaxTile == 3

(* ------------------------- crop_image_into_tiles ---------------------- *)

Min(a, b) == IF a < b THEN a ELSE b

\* whether a Python range(start, stop, step) that has reached v yields v
InRange(v, stop, step) == IF step > 0 THEN v < stop ELSE v > stop

\* mutant of TileBox: the box is not clipped at the raster boundary
TileBoxUnclipped(tx, ty, t, w, h) == <<tx, ty, tx + t, ty + t>>

\* mutant of TileBox: the bottom edge is clipped with the width
TileBoxWidthTwice(tx, ty, t, w, h) ==
    <<tx, ty, Min(tx + t, w), Min(ty + t, w)>>

\* box = (x, y, min(x + tile_size, img_width), min(y + tile_size, img_height))
TileBox(tx, ty, t, w, h) == <<tx, ty, Min(tx + t, w), Min(ty + t, h)>>

\* the call up to the evaluation of range(0, img_height, tile_size), which
\* raises ValueError for a step of zero
CropCall ==
    /\ pc = "start"
    /\ tiles_with_coordinates' = <<>>
    /\ tile_files' = <<>>
    /\ tile_num' = 0
    /\ y' = 0
    /\ IF tile_size = 0
         THEN pc' = "error" /\ error' = "ValueError:range"
         ELSE pc' = "crop_outer" /\ error' = error
    /\ UNCHANGED <<rasterVars, x, predictVars, displayVars, exportVars, remapVars, previous>>

\* for y in range(0, img_height, tile_size): next row, or the return
CropNextRow ==
    /\ pc = "crop_outer"
    /\ InRange(y, img_height, tile_size)
    /\ x' = 0
    /\ pc' = "crop_inner"
    /\ UNCHANGED <<error, rasterVars, y, tile_num, tiles_with_coordinates,
                   tile_files, predictVars, displayVars, exportVars, remapVars, previous>>

\* body of for x in range(0, img_width, tile_size)
CropTile ==
    /\ pc = "crop_inner"
    /\ InRange(x, img_width, tile_size)
    /\ tile_files' = Append(tile_files,
                            TileBox(x, y, tile_size, img_width, img_height))
    /\ tiles_with_coordinates' =
           Append(tiles_with_coordinates,
                  [path |-> tile_num, offset |-> <<x, y>>])
    /\ tile_num' = tile_num + 1
    /\ x' = x + tile_size
    /\ UNCHANGED <<pc, error, rasterVars, y, predictVars, displayVars,
                   exportVars, remapVars, previous>>

\* the inner range is exhausted: the outer loop advances
CropEndRow ==
    /\ pc = "crop_inner"
    /\ ~InRange(x, img_width, tile_size)
    /\ y' = y + tile_size
    /\ pc' = "crop_outer"
    /\ UNCHANGED <<error, rasterVars, x, tile_num, tiles_with_coordinates,
                   tile_files, predictVars, displayVars, exportVars, remapVars, previous>>

\* return tiles_with_coordinates
CropReturn ==
    /\ pc = "crop_outer"
    /\ ~InRange(y, img_height, tile_size)
    /\ pc' = "cropped"
    /\ UNCHANGED <<error, rasterVars, cropVars, predictVars, displayVars,
                   exportVars, remapVars, previous>>

(* ---------------------- get_predictions_for_tiles --------------------- *)

\* tile-local boxes (x_min, y_min, x_max, y_max) the detector reports
BoxA == <<10, 20, 30, 40>>
BoxB == <<0, 0, 5, 5>>
BoxC == <<100, 100, 200, 200>>

\* model.predict(tile) returns parallel sequences (labels, boxes, scores);
\* the detector is opaque, so each call returns any one of these
DetectorOutputs ==
    { [labels |-> <<>>, boxes |-> <<>>, scores |-> <<>>],
      [labels |-> <<"lettuce", "lettuce", "lettuce">>,
       boxes |-> <<BoxB, BoxA, BoxC>>, scores |-> <<10, 15, 20>>],
      [labels |-> <<"lettuce">>, boxes |-> <<BoxA>>, scores |-> <<90>>],
      [labels |-> <<"lettuce">>, boxes |-> <<BoxB>>, scores |-> <<10>>],
      [labels |-> <<"lettuce", "lettuce">>,
       boxes |-> <<BoxC, BoxC>>, scores |-> <<20, 20>>] }

\* threshold values a caller passes: 0.15 (the driver cells) and 0.3 (the
\* default of get_predictions_for_tiles and of the display function)
Thresholds == {15, 30}

\* the tuple appended to all_predictions; the threshold argument th of
\* get_predictions_for_tiles is not used by its body
PredictionEntry(out, tx, ty, th) ==
    [labels |-> out.labels, boxes |-> out.boxes, scores |-> out.scores,
     tile_x |-> tx, tile_y |-> ty]

\* get_predictions_for_tiles(tiles_with_coordinates, model, threshold=th)
PredictCall(th) ==
    /\ pc = "cropped"
    /\ predict_threshold' = th
    /\ all_predictions' = <<>>
    /\ predicted' = <<>>
    /\ pc' = "predict_loop"
    /\ UNCHANGED <<error, rasterVars, cropVars, displayVars, exportVars,
                   remapVars, previous>>

\* one iteration of the loop over tiles_with_coordinates, model.predict
\* returning out
PredictTile(out) ==
    /\ pc = "predict_loop"
    /\ Len(all_predictions) < Len(tiles_with_coordinates)
    /\ LET t == tiles_with_coordinates[Len(all_predictions) + 1]
       IN  all_predictions' =
               Append(all_predictions,
                      PredictionEntry(out, t.offset[1], t.offset[2],
                                      predict_threshold))
    /\ predicted' = Append(predicted, out)
    /\ UNCHANGED <<pc, error, rasterVars, cropVars, predict_threshold,
                   displayVars, exportVars, remapVars, previous>>

\* model.predict raises on a tile: nothing catches it
PredictRaise ==
    /\ pc = "predict_loop"
    /\ Len(all_predictions) < Len(tiles_with_coordinates)
    /\ pc' = "error"
    /\ error' = "DetectorError"
    /\ UNCHANGED <<rasterVars, cropVars, predictVars, displayVars, exportVars,
                   remapVars, previous>>

\* mutant of PredictReturn: the loop is left before every tile is detected
PredictReturnEarly ==
    /\ pc = "predict_loop"
    /\ pc' = "predicted"
    /\ UNCHANGED <<error, rasterVars, cropVars, predictVars, displayVars,
                   exportVars, remapVars, previous>>

\* return all_predictions
PredictReturn ==
    /\ pc = "predict_loop"
    /\ Len(all_predictions) = Len(tiles_with_coordinates)
    /\ pc' = "predicted"
    /\ UNCHANGED <<error, rasterVars, cropVars, predictVars, displayVars,
                   exportVars, remapVars, previous>>

(* ------------- adjust_boxes, display_original_image_with_boxes -------- *)

\* adjusted_box = [x_min + tile_x, y_min + tile_y, x_max + tile_x, y_max + tile_y]
AdjustBox(b, tx, ty) == <<b[1] + tx, b[2] + ty, b[3] + tx, b[4] + ty>>

adjust_boxes(boxes, tx, ty) ==
    [i \in 1..Len(boxes) |-> AdjustBox(boxes[i], tx, ty)]

\* the display's test with the export's comparison
DrawsInclusive(score, th) == score >= th

\* if scores[i] > threshold
Draws(score, th) == score > th

\* patches.Rectangle((x_min, y_min), x_max - x_min, y_max - y_min)
Rectangle(b) == [xy |-> <<b[1], b[2]>>, width |-> b[3] - b[1],
                 height |-> b[4] - b[2]]

\* the rectangles drawn for one entry of all_predictions, from index i on
RECURSIVE DrawTile(_, _, _, _)
DrawTile(adjusted, scores, i, th) ==
    IF i > Len(adjusted) THEN <<>>
    ELSE (IF Draws(scores[i], th) THEN <<Rectangle(adjusted[i])>> ELSE <<>>)
         \o DrawTile(adjusted, scores, i + 1, th)

\* the loop over all_predictions, from entry k on
RECURSIVE DrawAll(_, _, _)
DrawAll(preds, k, th) ==
    IF k > Len(preds) THEN <<>>
    ELSE DrawTile(adjust_boxes(preds[k].boxes, preds[k].tile_x, preds[k].tile_y),
                  preds[k].scores, 1, th)
         \o DrawAll(preds, k + 1, th)

\* display_original_image_with_boxes(image_path, all_predictions, threshold=th)
Display(th) ==
    /\ pc = "predicted"
    /\ display_threshold' = th
    /\ drawn' = DrawAll(all_predictions, 1, th)
    /\ pc' = "displayed"
    /\ UNCHANGED <<error, rasterVars, cropVars, predictVars, exportVars,
                   remapVars, previous>>

(* --------------- create_georeferenced_shapefile, transform_polygon ---- *)

\* CRS of the rasters read
CRSs == {"EPSG:32611", "EPSG:4326"}

\* the CRS the GeoDataFrame is constructed with
FrameCRS == "EPSG:32611"

\* affine transforms (a, b, c, d, e, f) of the rasters read: north-up with
\* an origin, and a plain positive scale
Transforms == { <<1, 0, 500, 0, -1, 4000>>, <<2, 0, 0, 0, 3, 0>> }

\* shapely.geometry.box(minx, miny, maxx, maxy): the exterior ring,
\* counter-clockwise from (maxx, miny), closed
ShapelyBox(minx, miny, maxx, maxy) ==
    << <<maxx, miny>>, <<maxx, maxy>>, <<minx, maxy>>, <<minx, miny>>,
       <<maxx, miny>> >>

\* transform * (x, y) of an affine.Affine (a, b, c, d, e, f)
AffineMul(T, p) ==
    <<T[1] * p[1] + T[2] * p[2] + T[3], T[4] * p[1] + T[5] * p[2] + T[6]>>

\* mutant of transform_polygon: two adjacent corners (items 0 and 1) span
\* the rectangle
transform_polygon_adjacent(geometry, T) ==
    LET transformed_coords ==
            [i \in 1..Len(geometry) |-> AffineMul(T, geometry[i])]
    IN  ShapelyBox(transformed_coords[1][1], transformed_coords[1][2],
                   transformed_coords[2][1], transformed_coords[2][2])

\* transformed_coords[0] and transformed_coords[2] are sequence items 1 and 3
transform_polygon(geometry, T) ==
    LET transformed_coords ==
            [i \in 1..Len(geometry) |-> AffineMul(T, geometry[i])]
    IN  ShapelyBox(transformed_coords[1][1], transformed_coords[1][2],
                   transformed_coords[3][1], transformed_coords[3][2])

\* mutant of Retains: the boundary score is dropped
RetainsStrict(score, th) == score > th

\* if scores[i] >= threshold
Retains(score, th) == score >= th

\* mutant of ToFullImage: the offset is added to x_min and y_min only
ToFullImageMinOnly(b, tx, ty) == <<b[1] + tx, b[2] + ty, b[3], b[4]>>

\* mutant of ToFullImage: tile_x is added to all four coordinates
ToFullImageXOnly(b, tx, ty) == <<b[1] + tx, b[2] + tx, b[3] + tx, b[4] + tx>>

\* x_min += tile_x; y_min += tile_y; x_max += tile_x; y_max += tile_y
ToFullImage(b, tx, ty) == <<b[1] + tx, b[2] + ty, b[3] + tx, b[4] + ty>>

\* the dict appended to polygons for detection i of entry p
Feature(p, i) ==
    LET full == ToFullImage(p.boxes[i], p.tile_x, p.tile_y)
    IN  [geometry |-> ShapelyBox(full[1], full[2], full[3], full[4]),
         label |-> p.labels[i], score |-> p.scores[i]]

\* the inner loop over enumerate(boxes), from index i on
RECURSIVE CollectTile(_, _, _)
CollectTile(p, i, th) ==
    IF i > Len(p.boxes) THEN <<>>
    ELSE (IF Retains(p.scores[i], th) THEN <<Feature(p, i)>> ELSE <<>>)
         \o CollectTile(p, i + 1, th)

\* mutant of CollectPolygons: the features of a later tile come first
RECURSIVE CollectPolygonsLaterFirst(_, _, _)
CollectPolygonsLaterFirst(preds, k, th) ==
    IF k > Len(preds) THEN <<>>
    ELSE CollectPolygonsLaterFirst(preds, k + 1, th) \o CollectTile(preds[k], 1, th)

\* the loop over all_predictions, from entry k on
RECURSIVE CollectPolygons(_, _, _)
CollectPolygons(preds, k, th) ==
    IF k > Len(preds) THEN <<>>
    ELSE CollectTile(preds[k], 1, th) \o CollectPolygons(preds, k + 1, th)

NoFrame == [has_geometry |-> FALSE, rows |-> <<>>, crs |-> "none"]
NoFile == [state |-> "absent", crs |-> "none", features |-> <<>>]

\* create_georeferenced_shapefile(all_predictions, image_path,
\* output_shapefile, th) up to the end of the with block: rasterio reads the
\* raster's CRS c and transform T, the same at every call
ExportOpen(th, c, T) ==
    /\ pc = "displayed"
    /\ crs # "none" => (c = crs /\ T = transform)
    /\ threshold' = th
    /\ crs' = c
    /\ transform' = T
    /\ pc' = "export_opened"
    /\ UNCHANGED <<error, rasterVars, cropVars, predictVars, displayVars,
                   polygons, gdf_pixel, out_file, remapVars, previous>>

\* the boxes stored in all_predictions once the collecting loops have run
\* on arrays whose items are views: x_min += tile_x (and the three other
\* additions) of a retained detection then writes into the stored box
StoredAfterCollect(preds, th) ==
    [k \in 1..Len(preds) |->
        [preds[k] EXCEPT !.boxes =
            [i \in 1..Len(preds[k].boxes) |->
                IF Retains(preds[k].scores[i], th)
                  THEN ToFullImage(preds[k].boxes[i], preds[k].tile_x,
                                   preds[k].tile_y)
                  ELSE preds[k].boxes[i]]]]

\* polygons = [] and the collecting loops.  What x_min += tile_x does to the
\* stored box depends on the type model.predict returns boxes in: items
\* unpacked from a tensor (detecto returns torch tensors) are views and the
\* addition is in place (views is TRUE); unpacked plain numbers are rebound
\* locally (views is FALSE)
ExportCollect(views) ==
    /\ pc = "export_opened"
    /\ polygons' = CollectPolygons(all_predictions, 1, threshold)
    /\ all_predictions' = IF views
                            THEN StoredAfterCollect(all_predictions, threshold)
                            ELSE all_predictions
    /\ pc' = "export_collected"
    /\ UNCHANGED <<error, rasterVars, cropVars, predict_threshold, predicted,
                   displayVars, threshold, crs, transform, gdf_pixel, out_file,
                   remapVars, previous>>

\* gdf_pixel = gpd.GeoDataFrame(polygons, crs="EPSG:32611").  An empty list
\* gives a frame with no column at all: geopandas either refuses the CRS of
\* a frame without geometry column (raised is TRUE) or builds the frame.
ExportFrame(raised) ==
    /\ pc = "export_collected"
    /\ IF polygons = <<>> /\ raised
         THEN /\ pc' = "error"
              /\ error' = "ValueError:frame"
              /\ UNCHANGED gdf_pixel
         ELSE /\ gdf_pixel' = [has_geometry |-> polygons # <<>>,
                               rows |-> polygons,
                               crs |-> IF polygons # <<>> THEN FrameCRS
                                       ELSE "none"]
              /\ pc' = "export_framed"
              /\ error' = error
    /\ raised => polygons = <<>>
    /\ UNCHANGED <<rasterVars, cropVars, predictVars, displayVars,
                   threshold, crs, transform, polygons, out_file, remapVars, previous>>

\* gdf_pixel['geometry'] = gdf_pixel['geometry'].apply(transform_polygon):
\* KeyError when the frame has no 'geometry' column
ExportTransform ==
    /\ pc = "export_framed"
    /\ IF gdf_pixel.has_geometry
         THEN /\ gdf_pixel' =
                    [gdf_pixel EXCEPT !.rows =
                        [i \in 1..Len(gdf_pixel.rows) |->
                            [gdf_pixel.rows[i] EXCEPT !.geometry =
                                transform_polygon(@, transform)]]]
              /\ pc' = "export_transformed"
              /\ error' = error
         ELSE /\ pc' = "error"
              /\ error' = "KeyError:geometry"
              /\ UNCHANGED gdf_pixel
    /\ UNCHANGED <<rasterVars, cropVars, predictVars, displayVars,
                   threshold, crs, transform, polygons, out_file, remapVars, previous>>

\* gdf_pixel.set_crs(crs, inplace=True): without allow_override, geopandas
\* raises ValueError when the frame already has another CRS
ExportSetCrs ==
    /\ pc = "export_transformed"
    /\ IF gdf_pixel.crs # "none" /\ gdf_pixel.crs # crs
         THEN /\ pc' = "error"
              /\ error' = "ValueError:crs"
              /\ UNCHANGED gdf_pixel
         ELSE /\ gdf_pixel' = [gdf_pixel EXCEPT !.crs = crs]
              /\ pc' = "export_crs_set"
              /\ error' = error
    /\ UNCHANGED <<rasterVars, cropVars, predictVars, displayVars,
                   threshold, crs, transform, polygons, out_file, remapVars, previous>>

\* gdf_pixel.to_file(output_shapefile, driver="ESRI Shapefile") creates the
\* layer at output_shapefile itself ...
ExportWriteBegin ==
    /\ pc = "export_crs_set"
    /\ out_file' = [state |-> "partial", crs |-> gdf_pixel.crs,
                    features |-> <<>>]
    /\ pc' = "writing"
    /\ UNCHANGED <<error, rasterVars, cropVars, predictVars, displayVars,
                   threshold, crs, transform, polygons, gdf_pixel, remapVars, previous>>

\* ... writes the rows one after the other ...
ExportWriteFeature ==
    /\ pc = "writing"
    /\ Len(out_file.features) < Len(gdf_pixel.rows)
    /\ out_file' = [out_file EXCEPT !.features =
                       Append(@, gdf_pixel.rows[Len(@) + 1])]
    /\ UNCHANGED <<pc, error, rasterVars, cropVars, predictVars, displayVars,
                   threshold, crs, transform, polygons, gdf_pixel, remapVars, previous>>

\* ... and closes it
ExportWriteClose ==
    /\ pc = "writing"
    /\ Len(out_file.features) = Len(gdf_pixel.rows)
    /\ out_file' = [out_file EXCEPT !.state = "complete"]
    /\ pc' = "done"
    /\ UNCHANGED <<error, rasterVars, cropVars, predictVars, displayVars,
                   threshold, crs, transform, polygons, gdf_pixel, remapVars, previous>>

\* the write fails (output path not writable, disk full): to_file raises
\* and what it has written so far stays at output_shapefile
ExportWriteRaise ==
    /\ pc \in {"export_crs_set", "writing"}
    /\ pc' = "error"
    /\ error' = "IOError"
    /\ UNCHANGED <<rasterVars, cropVars, predictVars, displayVars, exportVars,
                   remapVars, previous>>

(* ---------------- the coordinate remapping taken alone --------------- *)

\* bounds of the remapping specification: box coordinates 0..MaxCoord,
\* scale coefficients -MaxScale..MaxScale
MaxCoord == 2
MaxScale == 2

\* tile-local boxes with x_min <= x_max and y_min <= y_max
RemapBoxes ==
    { b \in (0..MaxCoord) \X (0..MaxCoord) \X (0..MaxCoord) \X (0..MaxCoord) :
        b[1] <= b[3] /\ b[2] <= b[4] }

\* tile offsets: multiples of a tile size
RemapOffsets == {0, MaxTile}

\* transforms: any scale, with or without a rotation/shear term, with or
\* without an origin
RemapTransforms ==
    { <<a, bd[1], cf[1], bd[2], e, cf[2]>> :
        a \in (0 - MaxScale)..MaxScale, e \in (0 - MaxScale)..MaxScale,
        bd \in {<<0, 0>>, <<1, 0>>, <<0, 1>>},
        cf \in {<<0, 0>>, <<500, 4000>>} }

\* lines 394-401 for one retained detection: the polygon in pixel coordinates
RemapToPixel ==
    /\ pc = "remap_start"
    /\ polygons' =
           <<Feature([labels |-> <<"lettuce">>, boxes |-> <<box_coords>>,
                      scores |-> <<threshold>>, tile_x |-> tile_x,
                      tile_y |-> tile_y], 1)>>
    /\ pc' = "remap_pixel"
    /\ UNCHANGED <<error, rasterVars, cropVars, predictVars, displayVars,
                   threshold, crs, transform, gdf_pixel, out_file, remapVars, previous>>

\* lines 412-414 for that polygon
RemapToGeographic ==
    /\ pc = "remap_pixel"
    /\ gdf_pixel' =
           [has_geometry |-> TRUE,
            rows |-> [i \in 1..Len(polygons) |->
                         [polygons[i] EXCEPT !.geometry =
                             transform_polygon(@, transform)]],
            crs |-> FrameCRS]
    /\ pc' = "remap_done"
    /\ UNCHANGED <<error, rasterVars, cropVars, predictVars, displayVars,
                   threshold, crs, transform, polygons, out_file, remapVars, previous>>

(* -------------------- the cells run a second time --------------------- *)

\* how often the display and export cells are run again
MaxReruns == 1

\* the notebook's display and export cells (display_original_image_with_boxes,
\* create_georeferenced_shapefile) are run again on the all_predictions of
\* the session
RunCellsAgain ==
    /\ pc = "done"
    /\ previous.runs < MaxReruns
    /\ previous' = [runs |-> previous.runs + 1, threshold |-> threshold,
                    polygons |-> polygons]
    /\ pc' = "predicted"
    /\ UNCHANGED <<error, rasterVars, cropVars, predictVars, displayVars,
                   exportVars, remapVars>>

(* --------------------------- specifications --------------------------- *)

\* the example of the tile coverage property
ExampleRaster == <<2000, 1500, 1024>>

\* <<img_width, img_height, tile_size>> of the pipeline runs
PipelineRasters ==
    { ExampleRaster, <<1, 1, 1>>, <<2, 1, 1>>, <<3, 2, 2>>, <<2, 2, 0>>,
      <<2, 2, -1>> }

\* the state before the first cell runs
Idle ==
    /\ error = "none"
    /\ x = 0 /\ y = 0 /\ tile_num = 0
    /\ tiles_with_coordinates = <<>>
    /\ tile_files = <<>>
    /\ predict_threshold = 0
    /\ predicted = <<>>
    /\ all_predictions = <<>>
    /\ display_threshold = 0
    /\ drawn = <<>>
    /\ polygons = <<>>
    /\ gdf_pixel = NoFrame
    /\ out_file = NoFile
    /\ previous = [runs |-> 0, threshold |-> 0, polygons |-> <<>>]

Init ==
    /\ pc = "start"
    /\ Idle
    /\ \E r \in PipelineRasters :
           img_width = r[1] /\ img_height = r[2] /\ tile_size = r[3]
    /\ threshold = 0
    /\ crs = "none"
    /\ transform = <<1, 0, 0, 0, 1, 0>>
    /\ box_coords = <<0, 0, 0, 0>> /\ tile_x = 0 /\ tile_y = 0

Next ==
    \/ CropCall
    \/ CropNextRow
    \/ CropTile
    \/ CropEndRow
    \/ CropReturn
    \/ \E th \in Thresholds : PredictCall(th)
    \/ \E out \in DetectorOutputs : PredictTile(out)
    \/ PredictRaise
    \/ PredictReturn
    \/ \E th \in Thresholds : Display(th)
    \/ \E th \in Thresholds, c \in CRSs, T \in Transforms : ExportOpen(th, c, T)
    \/ \E views \in BOOLEAN : ExportCollect(views)
    \/ \E raised \in BOOLEAN : ExportFrame(raised)
    \/ ExportTransform
    \/ ExportSetCrs
    \/ ExportWriteBegin
    \/ ExportWriteFeature
    \/ ExportWriteClose
    \/ ExportWriteRaise

Spec == Init /\ [][Next]_vars

\* <<img_width, img_height, tile_size>> of the runs whose cells are run again
RerunRasters == { <<2, 1, 1>> }

InitRerun ==
    /\ pc = "start"
    /\ Idle
    /\ \E r \in RerunRasters :
           img_width = r[1] /\ img_height = r[2] /\ tile_size = r[3]
    /\ threshold = 0
    /\ crs = "none"
    /\ transform = <<1, 0, 0, 0, 1, 0>>
    /\ box_coords = <<0, 0, 0, 0>> /\ tile_x = 0 /\ tile_y = 0

NextRerun ==
    \/ Next
    \/ RunCellsAgain

SpecRerun == InitRerun /\ [][NextRerun]_vars

InitTiles ==
    /\ pc = "start"
    /\ Idle
    /\ \/ /\ img_width \in 1..MaxDim
          /\ img_height \in 1..MaxDim
          /\ tile_size \in (0 - MaxTile)..MaxTile
       \/ /\ img_width = ExampleRaster[1]
          /\ img_height = ExampleRaster[2]
          /\ tile_size = ExampleRaster[3]
    /\ threshold = 0
    /\ crs = "none"
    /\ transform = <<1, 0, 0, 0, 1, 0>>
    /\ box_coords = <<0, 0, 0, 0>> /\ tile_x = 0 /\ tile_y = 0

NextTiles ==
    \/ CropCall
    \/ CropNextRow
    \/ CropTile
    \/ CropEndRow
    \/ CropReturn

SpecTiles == InitTiles /\ [][NextTiles]_vars

InitRemap ==
    /\ pc = "remap_start"
    /\ Idle
    /\ img_width = 1 /\ img_height = 1 /\ tile_size = 1
    /\ threshold \in Thresholds
    /\ crs = FrameCRS
    /\ transform \in RemapTransforms
    /\ box_coords \in RemapBoxes
    /\ tile_x \in RemapOffsets
    /\ tile_y \in RemapOffsets

NextRemap ==
    \/ RemapToPixel
    \/ RemapToGeographic

SpecRemap == InitRemap /\ [][NextRemap]_vars

(* ------------------------------ claims -------------------------------- *)

\* the tiles whose box holds pixel (px, py)
TilesHolding(px, py) ==
    { k \in 1..Len(tile_files) :
        /\ tile_files[k][1] <= px /\ px < tile_files[k][3]
        /\ tile_files[k][2] <= py /\ py < tile_files[k][4] }

\* C1: for every raster of width W >= 1 and height H >= 1 and every
\* tile_size > 0, once crop_image_into_tiles has returned every pixel of
\* [0,W) x [0,H) lies in exactly one tile box and no tile box extends
\* outside the raster.
C1_TileCoverage ==
    (pc = "cropped" /\ tile_size > 0) =>
        /\ \A px \in 0..(img_width - 1), py \in 0..(img_height - 1) :
               Cardinality(TilesHolding(px, py)) = 1
        /\ \A k \in 1..Len(tile_files) :
               /\ 0 <= tile_files[k][1] /\ tile_files[k][1] < tile_files[k][3]
               /\ tile_files[k][3] <= img_width
               /\ 0 <= tile_files[k][2] /\ tile_files[k][2] < tile_files[k][4]
               /\ tile_files[k][4] <= img_height

\* a state where C1's case happens: a returned grid of several rows and
\* columns whose right and bottom edge tiles are clipped
C1_Witness ==
    /\ pc = "cropped"
    /\ img_width = 5 /\ img_height = 3 /\ tile_size = 2
    /\ Len(tile_files) = 6
    /\ tile_files[6] = <<4, 2, 5, 3>>

\* number of columns and rows of the grid
GridCols(w, t) == (w + t - 1) \div t
GridRows(h, t) == (h + t - 1) \div t

\* offset of the tile of index k in row-major order
GridOffset(k, w, t) == <<(k % GridCols(w, t)) * t, (k \div GridCols(w, t)) * t>>

\* C2: with tile_size t > 0 the tile of index k (from 0) is the k-th in
\* row-major order: its recorded offset is (ox, oy), its file is tile_<k>,
\* its box is (ox, oy, min(ox+t, W), min(oy+t, H)); the sequence depends on
\* W, H and t alone, and the returned list holds the whole grid; W=2000,
\* H=1500, t=1024 gives the four boxes of the example in that order.
C2_RowMajorTiles ==
    tile_size > 0 =>
        /\ Len(tile_files) = Len(tiles_with_coordinates)
        /\ \A k \in 0..(Len(tiles_with_coordinates) - 1) :
               LET o == GridOffset(k, img_width, tile_size)
               IN  /\ tiles_with_coordinates[k + 1].path = k
                   /\ tiles_with_coordinates[k + 1].offset = o
                   /\ tile_files[k + 1] =
                          <<o[1], o[2], Min(o[1] + tile_size, img_width),
                            Min(o[2] + tile_size, img_height)>>
        /\ pc = "cropped" =>
               Len(tiles_with_coordinates) =
                   GridCols(img_width, tile_size) * GridRows(img_height, tile_size)
        /\ (pc = "cropped" /\ <<img_width, img_height, tile_size>> = ExampleRaster)
               => tile_files = << <<0, 0, 1024, 1024>>, <<1024, 0, 2000, 1024>>,
                                  <<0, 1024, 1024, 1500>>,
                                  <<1024, 1024, 2000, 1500>> >>

\* a state where C2's case happens: the example raster has been tiled
C2_Witness ==
    /\ pc = "cropped"
    /\ <<img_width, img_height, tile_size>> = ExampleRaster
    /\ Len(tiles_with_coordinates) = 4
    /\ tiles_with_coordinates[4] = [path |-> 3, offset |-> <<1024, 1024>>]

\* C8: crop_image_into_tiles called with tile_size <= 0 never returns a tile
\* list (it ends in an error).
C8_NonPositiveTileSizeNeverReturns ==
    tile_size <= 0 => pc # "cropped"

(* the pipeline's claims *)

\* create_georeferenced_shapefile has built polygons
Collected ==
    \/ pc \in {"export_collected", "export_framed", "export_transformed",
               "export_crs_set", "writing", "done"}
    \/ pc = "error" /\ error \in {"ValueError:frame", "KeyError:geometry",
                                  "ValueError:crs", "IOError"}

\* get_predictions_for_tiles runs or has returned and the collecting loops
\* of create_georeferenced_shapefile have not run yet
BeforeCollect == pc \in {"predict_loop", "predicted", "displayed", "export_opened"}

\* create_georeferenced_shapefile has ended, normally or by an exception
ExportEnded == Collected /\ pc \in {"done", "error"}

\* <<k, i>>: detection i of the k-th model.predict call
Pairs == { ki \in (1..Len(predicted)) \X (1..3) : ki[2] <= Len(predicted[ki[1]].boxes) }

\* the pairs of call k from detection i on with a score of at least th, in order
RECURSIVE KeptOfTile(_, _, _)
KeptOfTile(k, i, th) ==
    IF i > Len(predicted[k].scores) THEN <<>>
    ELSE (IF predicted[k].scores[i] < th THEN <<>> ELSE << <<k, i>> >>)
         \o KeptOfTile(k, i + 1, th)

\* the pairs of calls k.. with a score of at least th: tile order, then
\* detection order
RECURSIVE KeptFrom(_, _)
KeptFrom(k, th) ==
    IF k > Len(predicted) THEN <<>>
    ELSE KeptOfTile(k, 1, th) \o KeptFrom(k + 1, th)

\* (x_min, y_min, x_max, y_max) of a ring of points
RingBounds(g) ==
    LET xs == { g[i][1] : i \in 1..Len(g) }
        ys == { g[i][2] : i \in 1..Len(g) }
    IN  << CHOOSE m \in xs : \A n \in xs : m <= n,
           CHOOSE m \in ys : \A n \in ys : m <= n,
           CHOOSE m \in xs : \A n \in xs : m >= n,
           CHOOSE m \in ys : \A n \in ys : m >= n >>

\* the tile-local box of pair ki moved by the origin of the tile it was
\* detected in
FullImageBox(ki) ==
    LET b == predicted[ki[1]].boxes[ki[2]]
        o == tiles_with_coordinates[ki[1]].offset
    IN  <<b[1] + o[1], b[2] + o[2], b[3] + o[1], b[4] + o[2]>>

\* C3: every entry of all_predictions carries the origin of its own tile;
\* every box remapped to full-image space, by adjust_boxes for the display
\* and inside create_georeferenced_shapefile for the export, is the
\* tile-local box with that origin added to x_min/x_max and y_min/y_max, so
\* both remaps agree; offset (1024,0) and box (10,20,30,40) give
\* (1034,20,1054,40).
C3_RemapAddsTileOffset ==
    /\ \A k \in 1..Len(all_predictions) :
           /\ <<all_predictions[k].tile_x, all_predictions[k].tile_y>>
                  = tiles_with_coordinates[k].offset
           /\ tiles_with_coordinates[k].offset
                  = <<tile_files[k][1], tile_files[k][2]>>
    /\ BeforeCollect => \A k \in 1..Len(all_predictions) :
           /\ all_predictions[k].boxes = predicted[k].boxes
           /\ adjust_boxes(all_predictions[k].boxes, all_predictions[k].tile_x,
                           all_predictions[k].tile_y)
                  = [i \in 1..Len(predicted[k].boxes) |->
                        ToFullImage(predicted[k].boxes[i],
                                    tiles_with_coordinates[k].offset[1],
                                    tiles_with_coordinates[k].offset[2])]
    /\ pc = "export_collected" =>
           LET kept == KeptFrom(1, threshold)
           IN  /\ Len(polygons) = Len(kept)
               /\ \A j \in 1..Len(kept) :
                      /\ RingBounds(polygons[j].geometry) = FullImageBox(kept[j])
                      /\ (/\ tiles_with_coordinates[kept[j][1]].offset = <<1024, 0>>
                          /\ predicted[kept[j][1]].boxes[kept[j][2]] = <<10, 20, 30, 40>>)
                             => RingBounds(polygons[j].geometry) = <<1034, 20, 1054, 40>>
    /\ pc = "displayed" =>
           LET shown == KeptFrom(1, display_threshold + 1)
           IN  /\ Len(drawn) = Len(shown)
               /\ \A j \in 1..Len(shown) :
                      LET f == FullImageBox(shown[j])
                      IN  drawn[j] = [xy |-> <<f[1], f[2]>>, width |-> f[3] - f[1],
                                      height |-> f[4] - f[2]]

\* a state where C3's case happens: a detection (10,20,30,40) of the tile
\* at (1024,0) has been drawn and collected for the export
C3_Witness ==
    /\ pc = "export_collected"
    /\ Len(all_predictions) >= 2
    /\ all_predictions[2].tile_x = 1024 /\ all_predictions[2].tile_y = 0
    /\ \E j \in 1..Len(polygons) :
           RingBounds(polygons[j].geometry) = <<1034, 20, 1054, 40>>
    /\ \E j \in 1..Len(drawn) :
           drawn[j] = [xy |-> <<1034, 20>>, width |-> 20, height |-> 20]

\* the label, score and full-image box create_georeferenced_shapefile is to
\* export for pair ki
PixelFeature(ki) ==
    [label |-> predicted[ki[1]].labels[ki[2]],
     score |-> predicted[ki[1]].scores[ki[2]],
     bounds |-> FullImageBox(ki)]

\* the same of a collected feature
PixelFeatureOf(f) ==
    [label |-> f.label, score |-> f.score, bounds |-> RingBounds(f.geometry)]

\* C4: all_predictions holds everything model.predict returned, whatever
\* threshold get_predictions_for_tiles was given, and the detections
\* create_georeferenced_shapefile exports are, counted with multiplicity,
\* exactly those with score >= its threshold: a score equal to the
\* threshold is kept, a lower one dropped.
C4_ThresholdFilter ==
    /\ \A k \in 1..Len(all_predictions) :
           /\ all_predictions[k].labels = predicted[k].labels
           /\ BeforeCollect => all_predictions[k].boxes = predicted[k].boxes
           /\ all_predictions[k].scores = predicted[k].scores
    /\ pc = "export_collected" =>
           /\ \A ki \in Pairs :
                  Cardinality({ j \in 1..Len(polygons) :
                                  PixelFeatureOf(polygons[j]) = PixelFeature(ki) })
                  = Cardinality({ kj \in Pairs :
                                    /\ PixelFeature(kj) = PixelFeature(ki)
                                    /\ predicted[kj[1]].scores[kj[2]] >= threshold })
           /\ \A j \in 1..Len(polygons) :
                  \E ki \in Pairs : PixelFeatureOf(polygons[j]) = PixelFeature(ki)
    /\ pc = "done" =>
           /\ Len(out_file.features) =
                  Cardinality({ ki \in Pairs :
                                  predicted[ki[1]].scores[ki[2]] >= threshold })
           /\ \A j \in 1..Len(out_file.features) :
                  /\ out_file.features[j].score >= threshold
                  /\ out_file.features[j].score = polygons[j].score

\* a state where C4's case happens: scores 0.10, 0.15, 0.20 under
\* threshold 0.15 after get_predictions_for_tiles was given 0.3: two of the
\* three are exported
C4_Witness ==
    /\ pc = "done"
    /\ predict_threshold = 30 /\ threshold = 15
    /\ Len(predicted) = 1
    /\ predicted[1].scores = <<10, 15, 20>>
    /\ Len(out_file.features) = 2
    /\ out_file.features[1].score = 15

\* C5: the features create_georeferenced_shapefile builds are, one per
\* detection with score >= threshold, in tile processing order and then
\* detection order, each with its own label and score; nothing is merged
\* or deduplicated; the frame and the written layer keep that sequence.
C5_FeatureOrder ==
    /\ pc = "export_collected" =>
           LET kept == KeptFrom(1, threshold)
           IN  /\ Len(polygons) = Len(kept)
               /\ \A j \in 1..Len(kept) :
                      PixelFeatureOf(polygons[j]) = PixelFeature(kept[j])
    /\ pc \in {"export_transformed", "export_crs_set", "writing", "done"} =>
           /\ Len(gdf_pixel.rows) = Len(polygons)
           /\ \A j \in 1..Len(polygons) :
                  /\ gdf_pixel.rows[j].label = polygons[j].label
                  /\ gdf_pixel.rows[j].score = polygons[j].score
                  /\ gdf_pixel.rows[j].geometry
                         = transform_polygon(polygons[j].geometry, transform)
    /\ pc = "done" => out_file.features = gdf_pixel.rows

\* a state where C5's case happens: detections of two tiles are exported,
\* among them two equal features next to each other
C5_Witness ==
    /\ pc = "done"
    /\ Len(predicted) >= 2
    /\ predicted[1].boxes # <<>> /\ predicted[2].boxes # <<>>
    /\ Len(out_file.features) >= 3
    /\ \E j \in 1..(Len(out_file.features) - 1) :
           out_file.features[j] = out_file.features[j + 1]
    /\ out_file.features[1].score # out_file.features[Len(out_file.features)].score

\* C6: whatever the CRS of the source raster, create_georeferenced_shapefile
\* run with at least one retained detection and a writable output completes,
\* and the layer it wrote declares the raster's CRS.
C6_OutputCrsIsRasterCrs ==
    (ExportEnded /\ polygons # <<>> /\ error # "IOError") =>
        /\ pc = "done"
        /\ out_file.state = "complete"
        /\ out_file.crs = crs

\* C7: when no detection is retained, create_georeferenced_shapefile run
\* with a writable output completes, having written a layer of zero features
\* that declares the raster's CRS.
C7_EmptyLayerWritten ==
    (ExportEnded /\ polygons = <<>> /\ error # "IOError") =>
        /\ pc = "done"
        /\ out_file = [state |-> "complete", crs |-> crs, features |-> <<>>]

\* C10: when the run has ended, normally or by an exception, the file at
\* output_shapefile either does not exist or is the complete layer of all
\* retained detections.
C10_NoPartialOutput ==
    pc \in {"done", "error"} =>
        \/ out_file.state = "absent"
        \/ /\ out_file.state = "complete"
           /\ Len(out_file.features) = Len(KeptFrom(1, threshold))

(* the coordinate remapping's claims *)

\* the four corners of a box (x_min, y_min, x_max, y_max)
Corners(b) == { <<b[1], b[2]>>, <<b[3], b[2]>>, <<b[1], b[4]>>, <<b[3], b[4]>> }

\* the points of a ring
RingPoints(g) == { g[i] : i \in 1..Len(g) }

\* C9: transform_polygon returns the axis-aligned rectangle spanned by the
\* images of two diagonally opposite corners of the pixel box; when the
\* transform has no rotation or shear term, the corners of that rectangle
\* are exactly the images of the four corners of the pixel box.
C9_TransformPolygon ==
    pc = "remap_done" =>
        LET full == <<box_coords[1] + tile_x, box_coords[2] + tile_y,
                      box_coords[3] + tile_x, box_coords[4] + tile_y>>
            T == transform
            Image(p) == <<T[1] * p[1] + T[2] * p[2] + T[3],
                          T[4] * p[1] + T[5] * p[2] + T[6]>>
            p == Image(<<full[3], full[2]>>)
            q == Image(<<full[1], full[4]>>)
            geo == gdf_pixel.rows[1].geometry
        IN  /\ Len(geo) = 5 /\ geo[5] = geo[1]
            /\ RingPoints(geo) = Corners(<<p[1], p[2], q[1], q[2]>>)
            /\ (T[2] = 0 /\ T[4] = 0) =>
                   RingPoints(geo) = { Image(c) : c \in Corners(full) }

\* a state where C9's case happens: a box of positive area, in a tile with
\* an offset, transformed by a north-up transform (negative y scale) with an
\* origin and no rotation
C9_Witness ==
    /\ pc = "remap_done"
    /\ box_coords = <<0, 1, 2, 2>> /\ tile_x = MaxTile /\ tile_y = 0
    /\ transform = <<2, 0, 500, 0, -1, 4000>>
    /\ gdf_pixel.rows[1].geometry[1] = <<2 * MaxTile + 500, 3999>>
    /\ gdf_pixel.rows[1].geometry[3] = <<2 * (2 + MaxTile) + 500, 3998>>


(* the ordering of the run *)

\* C11 as amended: the run is ordered by phase, not by tile: with
\* tile_size > 0 all tiles of the grid are generated and saved before the
\* first detection, tiles are detected one at a time in index order, every
\* tile is detected before display or export remaps any box, and every
\* saved tile is still on disk after its inference call has returned.
C11_PhaseOrder ==
    tile_size > 0 =>
        /\ Len(tile_files) = Len(tiles_with_coordinates)
        /\ Len(all_predictions) <= Len(tiles_with_coordinates)
        /\ \A k \in 1..Len(all_predictions) :
               <<all_predictions[k].tile_x, all_predictions[k].tile_y>>
                   = tiles_with_coordinates[k].offset
        /\ (pc \notin {"start", "crop_outer", "crop_inner"}) =>
               Len(tile_files) =
                   GridCols(img_width, tile_size) * GridRows(img_height, tile_size)
        /\ (drawn # <<>> \/ polygons # <<>>) =>
               Len(all_predictions) = Len(tiles_with_coordinates)

\* a state where C11's case happens: all four tiles of the example raster
\* are on disk, the first two are detected, nothing is remapped yet
C11_Witness ==
    /\ pc = "predict_loop"
    /\ Len(tile_files) = 4
    /\ Len(all_predictions) = 2
    /\ drawn = <<>> /\ polygons = <<>>

\* C11 as stated: tile N+1 is generated only once tile N has been detected,
\* and no tile is kept once its inference call has returned.
C11_PerTileOrder ==
    /\ Len(tile_files) <= Len(all_predictions) + 1
    /\ \A k \in 1..Len(tile_files) : k > Len(all_predictions)


\* the transform T with the offset (ox, oy) incorporated:
\* WithOffset(T, ox, oy) applied to (x, y) is T applied to (x + ox, y + oy)
WithOffset(T, ox, oy) ==
    <<T[1], T[2], T[1] * ox + T[2] * oy + T[3],
      T[4], T[5], T[4] * ox + T[5] * oy + T[6]>>

\* C12: for every tile-local box, tile offset and affine transform T, the
\* geographic rectangle obtained from the offset-remapped box with T is the
\* one obtained from the tile-local box itself with T with the offset
\* incorporated.
C12_OffsetIntoTransform ==
    pc = "remap_done" =>
        gdf_pixel.rows[1].geometry =
            transform_polygon(
                ShapelyBox(box_coords[1], box_coords[2], box_coords[3],
                           box_coords[4]),
                WithOffset(transform, tile_x, tile_y))

\* a state where C12's case happens: a box of positive area in a tile with
\* an offset in x only, transformed with a shear term and an origin
C12_Witness ==
    /\ pc = "remap_done"
    /\ box_coords = <<0, 1, 2, 2>> /\ tile_x = MaxTile /\ tile_y = 0
    /\ transform = <<2, 1, 500, 0, -1, 4000>>
    /\ gdf_pixel.rows[1].geometry[1] = <<2 * MaxTile + 2 + 500, 3999>>


(* the cells run a second time *)

\* the geometries of a list of features
Geometries(fs) == [j \in 1..Len(fs) |-> fs[j].geometry]

\* C13: display_original_image_with_boxes and
\* create_georeferenced_shapefile leave every label, tile-local box, score
\* and tile offset stored in all_predictions as model.predict and the tiling
\* produced them, so create_georeferenced_shapefile run a second time with
\* the same threshold builds the same feature geometries as the first time.
C13_DetectionsImmutable ==
    /\ \A k \in 1..Len(all_predictions) :
           all_predictions[k] =
               [labels |-> predicted[k].labels, boxes |-> predicted[k].boxes,
                scores |-> predicted[k].scores,
                tile_x |-> tiles_with_coordinates[k].offset[1],
                tile_y |-> tiles_with_coordinates[k].offset[2]]
    /\ (pc = "export_collected" /\ previous.runs > 0
            /\ previous.threshold = threshold) =>
           Geometries(polygons) = Geometries(previous.polygons)


(* the display against the export *)

\* the collected features with a score above th, in order
ExportedAbove(th) == SelectSeq(polygons, LAMBDA f : f.score > th)

\* C14: with the same all_predictions and the same threshold given to
\* display_original_image_with_boxes and create_georeferenced_shapefile,
\* the detections drawn are among those exported, the exported ones that
\* are not drawn are exactly those with a score equal to the threshold, and
\* every detection in both has the same full-image pixel box in both.
C14_DrawnSubsetOfExported ==
    (pc = "export_collected" /\ display_threshold = threshold) =>
        LET above == ExportedAbove(threshold)
        IN  /\ Len(drawn) = Len(above)
            /\ \A j \in 1..Len(above) :
                   drawn[j] = Rectangle(RingBounds(above[j].geometry))
            /\ \A j \in 1..Len(polygons) :
                   polygons[j].score >= threshold
            /\ Len(polygons) - Len(drawn)
                   = Cardinality({ j \in 1..Len(polygons) :
                                     polygons[j].score = threshold })
            /\ Cardinality({ j \in 1..Len(polygons) :
                               polygons[j].score = threshold })
                   = Cardinality({ ki \in Pairs :
                                     predicted[ki[1]].scores[ki[2]] = threshold })

\* a state where C14's case happens: scores 0.10, 0.15, 0.20 displayed and
\* exported with threshold 0.15: one detection drawn, two exported
C14_Witness ==
    /\ pc = "export_collected"
    /\ display_threshold = 15 /\ threshold = 15
    /\ Len(predicted) = 1
    /\ predicted[1].scores = <<10, 15, 20>>
    /\ Len(drawn) = 1
    /\ Len(polygons) = 2
    /\ polygons[1].score = 15
    /\ drawn[1] = Rectangle(RingBounds(polygons[2].geometry))

=============================================================================
